---- MODULE Spec2Model ----
(***************************************************************************)
(* A model of ncbi-cell/process_lung_datasets.py: the five-stage pipeline  *)
(* (dataset locator, citation resolver, PMID resolver, annotation runner,  *)
(* dataset downloader), its on-disk caches and its worker pools, together  *)
(* with the two resolver functions get_title and get_pmid_for_title.       *)
(*                                                                         *)
(* Python values are tagged tuples, so that values of different Python     *)
(* types can be compared: None is <<"None">>, a str is <<"str", c1, ...>>  *)
(* (its text in chunks, so that s + "." is a concatenation), and the       *)
(* 2-tuple (a, b) is <<"tuple", a, b>>.                                    *)
(***************************************************************************)
EXTENDS Integers, Sequences, FiniteSets, TLC

VARIABLES
  pc,            \* where __main__ is
  files,         \* the parquet and pickle files that exist
  titles_pickle, \* the list in titles.pickle
  pmids_pickle,  \* the list in pmids.pickle
  ontogpt_out,   \* the PMIDs whose ontogpt/<pmid>.out exists
  h5ad,          \* cellxgene/<dataset_id>.H5AD: absent, partial or complete
  titles,        \* the list get_titles returned
  pmids,         \* the list get_pmids returned
  tw, tres,      \* get_title workers, one per dataset, and what each returned
  pw, pres,      \* get_pmid_for_title workers, one per title
  ow,            \* run_ontogpt_pubmed_annotate workers, one per PMID
  dw, dresp,     \* get_dataset workers and the dataset_id each was answered
  errlog,        \* the datasets get_dataset logged a dataset id error for
  net,           \* the remote calls of the stage last entered: <<stage, item>>
  cached,        \* the stages that read their cache in this run
  call           \* a single call of get_title or get_pmid_for_title

pipe == <<pc, files, titles_pickle, pmids_pickle, ontogpt_out, h5ad, titles,
          pmids, tw, tres, pw, pres, ow, dw, dresp, errlog, net, cached>>

vars == <<pipe, call>>

\* ------------------------------------------------------------ bounds
\* Elements of a fetched page that the model distinguishes.
MaxElems == 2
\* <script> tags in the page the fallback client returns.
MaxScripts == 5
\* PMIDs PubMed knows, and the longest idlist a search returns.
MaxIds == 2
\* Lung datasets in the census.
NumDatasets == 2
\* Assets of a dataset.
MaxAssets == 1

\* ------------------------------------------------------------ values
None == <<"None">>

Str(chunks) == <<"str">> \o chunks

Tuple2(a, b) == <<"tuple", a, b>>

IsStr(v) == v[1] = "str"

\* Python's s + t on two str values.
StrAdd(s, t) == s \o Tail(t)

Min(S) == CHOOSE x \in S : \A y \in S : x <= y

Max(S) == CHOOSE x \in S : \A y \in S : x >= y

\* All sequences over S of length at most n.
SeqsUpTo(S, n) == UNION {[1..k -> S] : k \in 0..n}

\* ------------------------------------------------------------ get_title
\* The literal parts of p1, and the one character "." does not match.
PUB == "Publication: "

DV == " Dataset Version:"

NL == "\n"

\* p1.search(citation): the leftmost match of "Publication: (.*) Dataset
\* Version:", its group greedy and confined to one line; group(1) or None.
p1_search(citation) ==
  LET s == Tail(citation)
      ok(i, j) == /\ i < j
                  /\ s[i] = PUB
                  /\ s[j] = DV
                  /\ \A k \in (i + 1)..(j - 1) : s[k] # NL
      starts == {i \in 1..Len(s) : \E j \in 1..Len(s) : ok(i, j)}
  IN IF starts = {} THEN None
     ELSE LET i == Min(starts)
              j == Max({k \in 1..Len(s) : ok(i, k)})
          IN Str(SubSeq(s, i + 1, j - 1))

selectors ==
  << "h1.c-article-title",
     "h1.article-header__title.smaller",
     "div.core-container h1",
     "h1.content-header__title.content-header__title--xx-long",
     "h1#page-title.highwire-cite-title" >>

\* fullsoup.select(selector): the elements the selector matches, in document
\* order. An element of a page is [sel, text]: the selector it matches ("" for
\* none) and its text.
select(body, selector) == SelectSeq(body, LAMBDA e : e.sel = selector)

\* Lines 121-130 with the last selector tried first.
select_title_reversed(body) ==
  LET hits == {k \in 1..Len(selectors) : select(body, selectors[k]) # <<>>}
  IN IF hits = {} THEN [found |-> FALSE, title |-> None, multi |-> FALSE]
     ELSE LET selected == select(body, selectors[Max(hits)])
          IN [found |-> TRUE, title |-> selected[1].text,
              multi |-> Len(selected) > 1]

\* Lines 121-130: the selectors in order; the first that selects anything gives
\* the title, the text of its first element.
select_title(body) ==
  LET hits == {k \in 1..Len(selectors) : select(body, selectors[k]) # <<>>}
  IN IF hits = {} THEN [found |-> FALSE, title |-> None, multi |-> FALSE]
     ELSE LET selected == select(body, selectors[Min(hits)])
          IN [found |-> TRUE, title |-> selected[1].text,
              multi |-> Len(selected) > 1]

\* Lines 141-145: the fifth <script>'s text searched with p2. A script is the
\* articleName its text carries (None when p2 does not match it).
curl_title(scripts) ==
  IF scripts # <<>> /\ Len(scripts) > 4 THEN scripts[5] ELSE None

\* What a call of get_title does: the value it returns (or that it raised),
\* whether it issued the HTTP request, whether it ran curl, and what it logged.
TitleOutcome(ret, raised, http, curl, warned, multi) ==
  [ret |-> ret, raised |-> raised, http |-> http, curl |-> curl,
   warned |-> warned, multi |-> multi]

\* get_title with the missing-URL exit returning title alone.
get_title_returns_title(citation, response, scripts) ==
  LET citation_url == p1_search(citation)
  IN IF citation_url = None
     THEN TitleOutcome(None, FALSE, FALSE, FALSE, TRUE, FALSE)
     ELSE IF response.exc
     THEN TitleOutcome(None, TRUE, TRUE, FALSE, FALSE, FALSE)
     ELSE LET sel == IF response.status_code = 200
                     THEN select_title(response.body)
                     ELSE [found |-> FALSE, title |-> None, multi |-> FALSE]
              try_wget == ~sel.found
          IN TitleOutcome(IF try_wget THEN curl_title(scripts) ELSE sel.title,
                          FALSE, TRUE, try_wget, FALSE, sel.multi)

\* get_title(citation), given the response requests.get would give and the
\* scripts of the page curl would print. The missing-URL exit of line 108
\* returns the pair (citation_url, title); line 149 returns title.
get_title(citation, response, scripts) ==
  LET citation_url == p1_search(citation)
  IN IF citation_url = None
     THEN TitleOutcome(Tuple2(None, None), FALSE, FALSE, FALSE, TRUE, FALSE)
     ELSE IF response.exc
     THEN TitleOutcome(None, TRUE, TRUE, FALSE, FALSE, FALSE)
     ELSE LET sel == IF response.status_code = 200
                     THEN select_title(response.body)
                     ELSE [found |-> FALSE, title |-> None, multi |-> FALSE]
              try_wget == ~sel.found
          IN TitleOutcome(IF try_wget THEN curl_title(scripts) ELSE sel.title,
                          FALSE, TRUE, try_wget, FALSE, sel.multi)

\* ---- the inputs get_title is checked on
MyStudy == Str(<<"My Study">>)

FooBar == Str(<<"Foo bar">>)

Texts == {MyStudy, FooBar}

Elements == [sel : {selectors[k] : k \in 1..Len(selectors)} \cup {""},
             text : Texts]

Bodies == SeqsUpTo(Elements, MaxElems)

NoResponse == [exc |-> FALSE, status_code |-> 0, body |-> <<>>]

\* requests.get raises, answers 200 with a page, or answers another status
\* (whose body is not read).
Responses ==
  {[exc |-> FALSE, status_code |-> 200, body |-> b] : b \in Bodies}
    \cup {[exc |-> FALSE, status_code |-> 404, body |-> <<>>],
          [exc |-> TRUE, status_code |-> 0, body |-> <<>>]}

ScriptTexts == {None, MyStudy}

CurlOutputs == SeqsUpTo(ScriptTexts, MaxScripts)

Citations ==
  { Str(<<"Study (2024) Journal ", PUB, "https://example.com/article", DV,
          " 2024-01-01 curated and distributed by CZ CELLxGENE">>),
    Str(<<"Study (2024) Journal ", PUB, "https://a.org/x", DV, " v1 ", DV>>),
    Str(<<"Study (2024) Journal, no publication link">>),
    Str(<<PUB, "https://example.com/article">>),
    Str(<<DV, " 2024-01-01 ", PUB>>),
    Str(<<PUB, "https://example.com/article", NL, DV>>) }

NoTitleOutcome == TitleOutcome(None, FALSE, FALSE, FALSE, FALSE, FALSE)

NoCall == [fn |-> "none"]

\* Whether requests.get's answer sends get_title to the fallback (line 132).
NeedsCurl(response) ==
  /\ ~response.exc
  /\ (response.status_code # 200 \/ ~select_title(response.body).found)

\* ------------------------------------------------------------ get_pmid_for_title
\* Lines 251-264: the ArticleTitle of a 200 answer, else None.
get_title_for_pmid(fetched) ==
  IF fetched.status_code = 200 THEN fetched.article_title ELSE None

PmidOutcome(ret, raised, fetched, logged) ==
  [ret |-> ret, raised |-> raised, fetched |-> fetched, logged |-> logged]

\* The candidates of lines 207-214 looked at before the loop ends: up to the
\* first whose fetch raises or whose title compares equal.
\* stop(k) says the loop ends at candidate k.
LoopEnd(idlist, stop(_)) ==
  LET ends == {k \in 1..Len(idlist) : stop(k)}
  IN IF ends = {} THEN Len(idlist) ELSE Min(ends)

\* Lines 205-218 comparing _title with title itself, without the period.
match_candidates_no_period(title, idlist, fetch) ==
  LET hit(k) == get_title_for_pmid(fetch[idlist[k]]) = title
      stop(k) == fetch[idlist[k]].exc \/ ~IsStr(title) \/ hit(k)
      last == LoopEnd(idlist, stop)
      fetched == SubSeq(idlist, 1, last)
  IN IF idlist = <<>>
     THEN PmidOutcome(None, TRUE, <<>>, {"warning"})
     ELSE IF fetch[idlist[last]].exc \/ ~IsStr(title)
     THEN PmidOutcome(None, TRUE, fetched, {"warning"})
     ELSE IF hit(last)
     THEN PmidOutcome(idlist[last], FALSE, fetched, {"warning"})
     ELSE PmidOutcome(idlist[1], FALSE, fetched, {"warning"})

\* Lines 205-218: more than one result. Each candidate's title is fetched in
\* idlist order and compared with title + "." (a TypeError when title is no
\* str); the first equal one is the PMID, and with none the first of idlist,
\* whose indexing raises on an empty idlist.
match_candidates(title, idlist, fetch) ==
  LET hit(k) == get_title_for_pmid(fetch[idlist[k]]) = StrAdd(title, Str(<<".">>))
      stop(k) == fetch[idlist[k]].exc \/ ~IsStr(title) \/ hit(k)
      last == LoopEnd(idlist, stop)
      fetched == SubSeq(idlist, 1, last)
  IN IF idlist = <<>>
     THEN PmidOutcome(None, TRUE, <<>>, {"warning"})
     ELSE IF fetch[idlist[last]].exc \/ ~IsStr(title)
     THEN PmidOutcome(None, TRUE, fetched, {"warning"})
     ELSE IF hit(last)
     THEN PmidOutcome(idlist[last], FALSE, fetched, {"warning"})
     ELSE PmidOutcome(idlist[1], FALSE, fetched, {"warning"})

\* get_pmid_for_title(title), given the search's answer and, for each PMID, the
\* answer a fetch of it would get. Lines 220-222: with a count of 1 or 0 the
\* PMID is idlist[0], an IndexError when the idlist is empty.
get_pmid_for_title(title, response, fetch) ==
  IF response.exc THEN PmidOutcome(None, TRUE, <<>>, {})
  ELSE IF response.status_code = 200
  THEN IF response.count > 1
       THEN match_candidates(title, response.idlist, fetch)
       ELSE IF response.idlist = <<>>
       THEN PmidOutcome(None, TRUE, <<>>, {})
       ELSE PmidOutcome(response.idlist[1], FALSE, <<>>, {})
  ELSE PmidOutcome(None, FALSE, <<>>, {"error"})

\* ---- the inputs get_pmid_for_title is checked on
PMIDs == {Str(<<ToString(n)>>) : n \in 1..MaxIds}

\* What get_titles can hand over, and a title that ends in a period itself.
QueryTitles == Texts \cup {StrAdd(FooBar, Str(<<".">>)), Tuple2(None, None)}

ArticleTitles ==
  {None, FooBar, StrAdd(FooBar, Str(<<".">>)),
   StrAdd(FooBar, Str(<<".", ".">>))}

FetchResponses ==
  {[exc |-> FALSE, status_code |-> 200, article_title |-> t] :
     t \in ArticleTitles}
    \cup {[exc |-> FALSE, status_code |-> 500, article_title |-> None],
          [exc |-> TRUE, status_code |-> 0, article_title |-> None]}

FetchMaps == [PMIDs -> FetchResponses]

\* The idlists of a search: distinct PMIDs, at most MaxIds of them.
IdLists ==
  {l \in SeqsUpTo(PMIDs, MaxIds) :
     \A i, j \in 1..Len(l) : i # j => l[i] # l[j]}

\* esearch answers with the count of all results and the first of them: the
\* count is the idlist's length, or more when the idlist is full.
SearchResponses ==
  {r \in [exc : {FALSE}, status_code : {200}, count : 0..(MaxIds + 1),
          idlist : IdLists] :
     \/ r.count = Len(r.idlist)
     \/ Len(r.idlist) = MaxIds /\ r.count > MaxIds}
    \cup {[exc |-> FALSE, status_code |-> 429, count |-> 0, idlist |-> <<>>],
          [exc |-> FALSE, status_code |-> 500, count |-> 0, idlist |-> <<>>],
          [exc |-> TRUE, status_code |-> 0, count |-> 0, idlist |-> <<>>]}

NoPmidOutcome == PmidOutcome(None, FALSE, <<>>, {})

\* ------------------------------------------------------------ the pipeline
\* Pool(8), lines 162, 276, 323 and 540.
PoolSize == 8

Datasets == 1..NumDatasets

\* lung_datasets.citation: the census has datasets whose citation carries a
\* publication URL and datasets whose citation does not.
LungCitation(d) ==
  IF d % 2 = 1
  THEN Str(<<"Study (2024) Journal ", PUB, "https://example.com/article", DV,
             " 2024-01-01 curated and distributed by CZ CELLxGENE">>)
  ELSE Str(<<"Study (2024) Journal, no publication link">>)

LUNG_OBS == "lung_obs.parquet"

LUNG_DATASETS == "lung_datasets.parquet"

TITLES_PICKLE == "titles.pickle"

PMIDS_PICKLE == "pmids.pickle"

\* list(set(xs)): a list of the distinct elements.
RECURSIVE ListOfSet(_)
ListOfSet(S) ==
  IF S = {} THEN <<>>
  ELSE LET x == CHOOSE y \in S : TRUE IN <<x>> \o ListOfSet(S \ {x})

Range(f) == {f[i] : i \in DOMAIN f}

\* The answers of the publisher's site for the article the citations link to,
\* whose headings all carry its title.
ArticleResponses ==
  {r \in Responses : \A k \in DOMAIN r.body : r.body[k].text = MyStudy}

\* What get_title can return (or that it raises) for each dataset's citation,
\* over all the answers of the publisher's site.
TitleReturns ==
  [d \in Datasets |->
     {[ret |-> o.ret, raised |-> o.raised, http |-> o.http] :
        o \in {get_title(LungCitation(d), r, <<>>) :
                 r \in {x \in ArticleResponses : ~NeedsCurl(x)}}
              \cup {get_title(LungCitation(d), r, q) :
                      r \in {x \in ArticleResponses : NeedsCurl(x)},
                      q \in CurlOutputs}}]

\* What get_pmid_for_title can return (or that it raises) for each title, over
\* all the answers of PubMed.
PmidReturns ==
  [t \in QueryTitles |->
     {[ret |-> o.ret, raised |-> o.raised] :
        o \in {get_pmid_for_title(t, r, f) :
                 r \in SearchResponses, f \in FetchMaps}}]

\* p.map returning at once, as map_async does.
MapDoneAsync(w) == TRUE

\* A pool's workers have all returned: what p.map waits for.
MapDone(w) ==
  \A i \in DOMAIN w : w[i] \in {"done", "exists", "returned", "joined"}

\* The with block of a pool ends after p.map has returned: the workers that
\* returned are gone with their pool.
Close(w) ==
  [i \in DOMAIN w |->
     IF w[i] \in {"done", "exists", "returned"} THEN "joined" ELSE w[i]]

MapRaised(w) == \E i \in DOMAIN w : w[i] = "raised"

Running(w) == {i \in DOMAIN w : w[i] \in {"running", "streaming"}}

Idle(n) == [i \in 1..n |-> "idle"]

\* The process's memory at the start of a run.
FreshRun ==
  /\ titles' = <<>> /\ pmids' = <<>>
  /\ tw' = Idle(NumDatasets) /\ tres' = [d \in Datasets |-> None]
  /\ pw' = <<>> /\ pres' = <<>> /\ ow' = <<>>
  /\ dw' = Idle(NumDatasets) /\ dresp' = [d \in Datasets |-> 0]
  /\ errlog' = {} /\ net' = {} /\ cached' = {}

disk == <<files, titles_pickle, pmids_pickle, ontogpt_out, h5ad>>

PipeInit ==
  /\ pc = "locator"
  /\ files = {} /\ titles_pickle = <<>> /\ pmids_pickle = <<>>
  /\ ontogpt_out = {} /\ h5ad = [d \in Datasets |-> "absent"]
  /\ titles = <<>> /\ pmids = <<>>
  /\ tw = Idle(NumDatasets) /\ tres = [d \in Datasets |-> None]
  /\ pw = <<>> /\ pres = <<>> /\ ow = <<>>
  /\ dw = Idle(NumDatasets) /\ dresp = [d \in Datasets |-> 0]
  /\ errlog = {} /\ net = {} /\ cached = {}

Init == PipeInit /\ call = NoCall

\* ---- get_lung_obs_and_datasets
\* The condition without its existence checks.
ParquetMissingAlways == TRUE

\* Lines 47-49: the condition under which the census is read.
ParquetMissing == LUNG_OBS \notin files \/ LUNG_DATASETS \notin files

\* The census opened before the condition is looked at.
LocatorReadOpensCensus ==
  /\ pc = "locator"
  /\ ~ParquetMissing
  /\ pc' = "titles"
  /\ cached' = cached \cup {"locator"}
  /\ net' = net \cup {<<"locator", 0>>}
  /\ UNCHANGED <<disk, titles, pmids, tw, tres, pw, pres, ow, dw, dresp,
                 errlog, call>>

\* Lines 47-49 and 78-84: both parquet files exist, and are read.
LocatorRead ==
  /\ pc = "locator"
  /\ ~ParquetMissing
  /\ pc' = "titles"
  /\ cached' = cached \cup {"locator"}
  /\ UNCHANGED <<disk, titles, pmids, tw, tres, pw, pres, ow, dw, dresp,
                 errlog, net, call>>

\* Lines 47-67: one of the two is missing; the census is opened and read.
LocatorOpen ==
  /\ pc = "locator"
  /\ ParquetMissing
  /\ pc' = "write_obs"
  /\ net' = net \cup {<<"locator", 0>>}
  /\ UNCHANGED <<disk, titles, pmids, tw, tres, pw, pres, ow, dw, dresp,
                 errlog, cached, call>>

\* Line 70.
LocatorWriteObs ==
  /\ pc = "write_obs"
  /\ files' = files \cup {LUNG_OBS}
  /\ pc' = "write_datasets"
  /\ UNCHANGED <<titles_pickle, pmids_pickle, ontogpt_out, h5ad, titles, pmids,
                 tw, tres, pw, pres, ow, dw, dresp, errlog, net, cached, call>>

\* Lines 73-76.
LocatorWriteDatasets ==
  /\ pc = "write_datasets"
  /\ files' = files \cup {LUNG_DATASETS}
  /\ pc' = "titles"
  /\ UNCHANGED <<titles_pickle, pmids_pickle, ontogpt_out, h5ad, titles, pmids,
                 tw, tres, pw, pres, ow, dw, dresp, errlog, net, cached, call>>

\* ---- get_titles
\* Lines 158 and 170-174: titles.pickle exists, and is loaded.
TitlesLoad ==
  /\ pc = "titles"
  /\ TITLES_PICKLE \in files
  /\ titles' = titles_pickle
  /\ cached' = cached \cup {"titles"}
  /\ pc' = "pmids"
  /\ net' = {}
  /\ UNCHANGED <<disk, pmids, tw, tres, pw, pres, ow, dw, dresp, errlog, call>>

\* Lines 158-163: no titles.pickle; the pool is started on the citations.
TitlesMap ==
  /\ pc = "titles"
  /\ TITLES_PICKLE \notin files
  /\ pc' = "titles_map"
  /\ net' = {}
  /\ UNCHANGED <<disk, titles, pmids, tw, tres, pw, pres, ow, dw, dresp,
                 errlog, cached, call>>

\* A pool worker takes a citation.
TitleStart(d) ==
  /\ pc = "titles_map"
  /\ tw[d] = "idle"
  /\ Cardinality(Running(tw)) < PoolSize
  /\ tw' = [tw EXCEPT ![d] = "running"]
  /\ UNCHANGED <<pc, disk, titles, pmids, tres, pw, pres, ow, dw, dresp,
                 errlog, net, cached, call>>

\* get_title on it, lines 89-149.
TitleFinish(d) ==
  /\ pc = "titles_map"
  /\ tw[d] = "running"
  /\ \E o \in TitleReturns[d] :
       /\ tw' = [tw EXCEPT ![d] = IF o.raised THEN "raised" ELSE "done"]
       /\ tres' = [tres EXCEPT ![d] = o.ret]
       /\ net' = IF o.http THEN net \cup {<<"titles", d>>} ELSE net
  /\ UNCHANGED <<pc, disk, titles, pmids, pw, pres, ow, dw, dresp, errlog,
                 cached, call>>

\* Lines 164-168: p.map has returned; the titles that are not None, made
\* distinct, are dumped.
TitlesDump ==
  /\ pc = "titles_map"
  /\ MapDone(tw)
  /\ LET got == ListOfSet({tres[d] : d \in Datasets} \ {None})
     IN /\ titles' = got
        /\ titles_pickle' = got
  /\ files' = files \cup {TITLES_PICKLE}
  /\ tres' = [d \in Datasets |-> None]
  /\ tw' = Close(tw)
  /\ pc' = "pmids"
  /\ UNCHANGED <<pmids_pickle, ontogpt_out, h5ad, pmids, pw, pres, ow, dw,
                 dresp, errlog, net, cached, call>>

\* ---- get_pmids
\* Lines 273 and 284-288: pmids.pickle exists, and is loaded.
PmidsLoad ==
  /\ pc = "pmids"
  /\ PMIDS_PICKLE \in files
  /\ pmids' = pmids_pickle
  /\ ow' = Idle(Len(pmids_pickle))
  /\ cached' = cached \cup {"pmids"}
  /\ pc' = "ontogpt_map"
  /\ net' = {}
  /\ UNCHANGED <<disk, titles, tw, tres, pw, pres, dw, dresp, errlog, call>>

\* Lines 273-277: no pmids.pickle; the pool is started on the titles.
PmidsMap ==
  /\ pc = "pmids"
  /\ PMIDS_PICKLE \notin files
  /\ pw' = Idle(Len(titles))
  /\ pres' = [i \in 1..Len(titles) |-> None]
  /\ pc' = "pmids_map"
  /\ net' = {}
  /\ UNCHANGED <<disk, titles, pmids, tw, tres, ow, dw, dresp, errlog, cached, call>>

PmidStart(i) ==
  /\ pc = "pmids_map"
  /\ pw[i] = "idle"
  /\ Cardinality(Running(pw)) < PoolSize
  /\ pw' = [pw EXCEPT ![i] = "running"]
  /\ UNCHANGED <<pc, disk, titles, pmids, tw, tres, pres, ow, dw, dresp,
                 errlog, net, cached, call>>

\* get_pmid_for_title on a title, lines 179-230.
PmidFinish(i) ==
  /\ pc = "pmids_map"
  /\ pw[i] = "running"
  /\ \E o \in PmidReturns[titles[i]] :
       /\ pw' = [pw EXCEPT ![i] = IF o.raised THEN "raised" ELSE "done"]
       /\ pres' = [pres EXCEPT ![i] = o.ret]
  /\ net' = net \cup {<<"pmids", i>>}
  /\ UNCHANGED <<pc, disk, titles, pmids, tw, tres, ow, dw, dresp, errlog,
                 cached, call>>

\* Lines 278-282, and run_ontogpt's pool started on the PMIDs (line 323).
PmidsDump ==
  /\ pc = "pmids_map"
  /\ MapDone(pw)
  /\ LET got == ListOfSet(Range(pres) \ {None})
     IN /\ pmids' = got
        /\ pmids_pickle' = got
        /\ ow' = Idle(Len(got))
  /\ files' = files \cup {PMIDS_PICKLE}
  /\ pres' = [i \in DOMAIN pres |-> None]
  /\ pw' = Close(pw)
  /\ pc' = "ontogpt_map"
  /\ net' = {}
  /\ UNCHANGED <<titles_pickle, ontogpt_out, h5ad, titles, tw, tres, dw,
                 dresp, errlog, cached, call>>

\* ---- run_ontogpt
\* Lines 297-298 and 317-318: the output exists, nothing is run.
OntogptExists(i) ==
  /\ pc = "ontogpt_map"
  /\ ow[i] = "idle"
  /\ Cardinality(Running(ow)) < PoolSize
  /\ pmids[i] \in ontogpt_out
  /\ ow' = [ow EXCEPT ![i] = "exists"]
  /\ UNCHANGED <<pc, disk, titles, pmids, tw, tres, pw, pres, dw, dresp,
                 errlog, net, cached, call>>

\* Lines 297-313: no output yet; ontogpt is started.
OntogptStart(i) ==
  /\ pc = "ontogpt_map"
  /\ ow[i] = "idle"
  /\ Cardinality(Running(ow)) < PoolSize
  /\ pmids[i] \notin ontogpt_out
  /\ ow' = [ow EXCEPT ![i] = "running"]
  /\ net' = net \cup {<<"ontogpt", i>>}
  /\ UNCHANGED <<pc, disk, titles, pmids, tw, tres, pw, pres, dw, dresp,
                 errlog, cached, call>>

\* Lines 301-315: subprocess.run returns; the exit status is not looked at,
\* and the tool has written its output or has not.
OntogptFinish(i) ==
  /\ pc = "ontogpt_map"
  /\ ow[i] = "running"
  /\ ow' = [ow EXCEPT ![i] = "done"]
  /\ \/ ontogpt_out' = ontogpt_out \cup {pmids[i]}
     \/ ontogpt_out' = ontogpt_out
  /\ UNCHANGED <<pc, files, titles_pickle, pmids_pickle, h5ad, titles, pmids,
                 tw, tres, pw, pres, dw, dresp, errlog, net, cached, call>>

\* Lines 323-324 and 538-540: p.map has returned; get_datasets starts its pool.
OntogptJoin ==
  /\ pc = "ontogpt_map"
  /\ MapDone(ow)
  /\ ow' = Close(ow)
  /\ pc' = "datasets_map"
  /\ net' = {}
  /\ UNCHANGED <<disk, titles, pmids, tw, tres, pw, pres, dw, dresp, errlog,
                 cached, call>>

\* ---- get_datasets
\* The answers of the curation API to a dataset's URL: requests.get raises, or
\* the answer has a status, and a 200 carries the assets' file types and a
\* dataset_id: the one asked for or another (the next lung dataset's, and for
\* the last lung dataset the id of no lung dataset).
MetaResponses(d) ==
  [exc : {FALSE}, status_code : {200}, dataset_id : {d, d + 1},
   assets : SeqsUpTo({"H5AD", "RDS"}, MaxAssets)]
    \cup [exc : {FALSE}, status_code : {204, 404}, dataset_id : {0},
          assets : {<<>>}]
    \cup [exc : {TRUE}, status_code : {0}, dataset_id : {0}, assets : {<<>>}]

\* get_dataset without the comparison of lines 342-346.
get_dataset_unvalidated(dataset_id, response, exists) ==
  IF response.exc \/ response.status_code >= 400 THEN "raise"
  ELSE IF response.status_code # 200 THEN "status_error"
  ELSE IF \A k \in DOMAIN response.assets : response.assets[k] # "H5AD"
  THEN "no_asset"
  ELSE IF ~exists THEN "download"
  ELSE "exists"

\* get_dataset without the os.path.exists of line 355.
get_dataset_unguarded(dataset_id, response, exists) ==
  IF response.exc \/ response.status_code >= 400 THEN "raise"
  ELSE IF response.status_code # 200 THEN "status_error"
  ELSE IF dataset_id # response.dataset_id THEN "id_error"
  ELSE IF \A k \in DOMAIN response.assets : response.assets[k] # "H5AD"
  THEN "no_asset"
  ELSE "download"

\* Lines 334-355 and 368-370: what get_dataset does with the API's answer, up
\* to its first H5AD asset. Every H5AD asset has the one download_filename, so
\* the assets after the first find the file there.
get_dataset(dataset_id, response, exists) ==
  IF response.exc \/ response.status_code >= 400 THEN "raise"
  ELSE IF response.status_code # 200 THEN "status_error"
  ELSE IF dataset_id # response.dataset_id THEN "id_error"
  ELSE IF \A k \in DOMAIN response.assets : response.assets[k] # "H5AD"
  THEN "no_asset"
  ELSE IF ~exists THEN "download"
  ELSE "exists"

\* Lines 327-362: a pool worker takes a dataset, asks the API for it and, for
\* its H5AD asset, asks for the asset and opens the local file.
DatasetGet(d) ==
  /\ pc = "datasets_map"
  /\ dw[d] = "idle"
  /\ Cardinality(Running(dw)) < PoolSize
  /\ \E r \in MetaResponses(d), asset_ok \in BOOLEAN :
       LET plan == get_dataset(d, r, h5ad[d] # "absent")
           opened == plan = "download" /\ asset_ok
       IN /\ plan # "download" => asset_ok
          /\ dw' = [dw EXCEPT ![d] =
                      CASE plan = "raise" -> "raised"
                        [] plan \in {"status_error", "id_error"} -> "returned"
                        [] plan = "no_asset" -> "done"
                        [] plan = "exists" -> "exists"
                        [] plan = "download" ->
                             IF asset_ok THEN "streaming" ELSE "raised"]
          /\ dresp' = [dresp EXCEPT ![d] = r.dataset_id]
          /\ errlog' = CASE plan = "status_error" -> errlog \cup {<<"get", d>>}
                         [] plan = "id_error" -> errlog \cup {<<"id", d>>}
                         [] OTHER -> errlog
          /\ net' = net \cup {<<"datasets", d>>}
                        \cup (IF plan = "download" THEN {<<"asset", d>>} ELSE {})
          /\ h5ad' = IF opened THEN [h5ad EXCEPT ![d] = "partial"] ELSE h5ad
  /\ UNCHANGED <<pc, files, titles_pickle, pmids_pickle, ontogpt_out, titles,
                 pmids, tw, tres, pw, pres, ow, cached, call>>

\* Lines 363-366: the last chunk is written and the file closed.
DatasetStreamed(d) ==
  /\ pc = "datasets_map"
  /\ dw[d] = "streaming"
  /\ h5ad' = [h5ad EXCEPT ![d] = "complete"]
  /\ dw' = [dw EXCEPT ![d] = "done"]
  /\ UNCHANGED <<pc, files, titles_pickle, pmids_pickle, ontogpt_out, titles,
                 pmids, tw, tres, pw, pres, ow, dresp, errlog, net, cached,
                 call>>

\* Line 363: iter_content raises in mid-stream; the with blocks close the
\* response and the file, and the file stays.
DatasetStreamFails(d) ==
  /\ pc = "datasets_map"
  /\ dw[d] = "streaming"
  /\ dw' = [dw EXCEPT ![d] = "raised"]
  /\ UNCHANGED <<pc, disk, titles, pmids, tw, tres, pw, pres, ow, dresp,
                 errlog, net, cached, call>>

\* Lines 540-541 and 556: p.map has returned, and the script ends; the
\* process is gone, the files stay.
DatasetsJoin ==
  /\ pc = "datasets_map"
  /\ MapDone(dw)
  /\ pc' = "done"
  /\ FreshRun
  /\ UNCHANGED <<disk, call>>

\* ---- the end of a run
\* The pool of the stage __main__ is in.
StageWorkers ==
  CASE pc = "titles_map" -> tw
    [] pc = "pmids_map" -> pw
    [] pc = "ontogpt_map" -> ow
    [] pc = "datasets_map" -> dw
    [] OTHER -> <<>>

\* A worker raised: p.map re-raises once no task is running, nothing catches
\* it, and the script ends there.
MapRaises ==
  /\ MapRaised(StageWorkers)
  /\ Running(StageWorkers) = {}
  /\ pc' = "aborted"
  /\ FreshRun
  /\ UNCHANGED <<disk, call>>

\* The script is killed (or the census read, or a write, raises): the process
\* and its workers are gone, the files stay as they are.
Interrupt ==
  /\ pc \notin {"done", "aborted"}
  /\ pc' = "aborted"
  /\ FreshRun
  /\ UNCHANGED <<disk, call>>

\* The script is run again.
Rerun ==
  /\ pc \in {"done", "aborted"}
  /\ pc' = "locator"
  /\ FreshRun
  /\ UNCHANGED <<disk, call>>

Next ==
  \/ LocatorRead \/ LocatorOpen \/ LocatorWriteObs \/ LocatorWriteDatasets
  \/ TitlesLoad \/ TitlesMap \/ TitlesDump
  \/ \E d \in Datasets : TitleStart(d) \/ TitleFinish(d)
  \/ PmidsLoad \/ PmidsMap \/ PmidsDump
  \/ \E i \in DOMAIN pw : PmidStart(i) \/ PmidFinish(i)
  \/ \E i \in DOMAIN ow : OntogptExists(i) \/ OntogptStart(i) \/ OntogptFinish(i)
  \/ OntogptJoin
  \/ \E d \in Datasets :
       DatasetGet(d) \/ DatasetStreamed(d) \/ DatasetStreamFails(d)
  \/ DatasetsJoin
  \/ MapRaises \/ Interrupt \/ Rerun

Spec == Init /\ [][Next]_vars

\* ------------------------------------------------------------ single calls
TitleInit ==
  /\ PipeInit
  /\ call \in {[fn |-> "get_title", step |-> "start", citation |-> c,
             response |-> NoResponse, scripts |-> <<>>,
             out |-> NoTitleOutcome] : c \in Citations}

\* Lines 105-108: no URL in the citation.
TitleNoUrl ==
  /\ call.fn = "get_title" /\ call.step = "start"
  /\ p1_search(call.citation) = None
  /\ call' = [call EXCEPT !.step = "done",
                          !.out = get_title(call.citation, NoResponse, <<>>)]
  /\ UNCHANGED pipe

\* Lines 110-130: the request and the selectors.
TitleRequest ==
  /\ call.fn = "get_title" /\ call.step = "start"
  /\ p1_search(call.citation) # None
  /\ \E r \in Responses :
       IF NeedsCurl(r)
       THEN call' = [call EXCEPT !.step = "curl", !.response = r]
       ELSE call' = [call EXCEPT !.step = "done", !.response = r,
                                 !.out = get_title(call.citation, r, <<>>)]
  /\ UNCHANGED pipe

\* Lines 132-149: the fallback.
TitleCurl ==
  /\ call.fn = "get_title" /\ call.step = "curl"
  /\ \E s \in CurlOutputs :
       call' = [call EXCEPT !.step = "done", !.scripts = s,
                            !.out = get_title(call.citation, call.response, s)]
  /\ UNCHANGED pipe

TitleNext == TitleNoUrl \/ TitleRequest \/ TitleCurl

SpecTitle == TitleInit /\ [][TitleNext]_vars

PmidInit ==
  /\ PipeInit
  /\ call \in {[fn |-> "get_pmid_for_title", step |-> "start", title |-> t,
             response |-> r, fetch |-> f, out |-> NoPmidOutcome] :
              t \in QueryTitles, r \in SearchResponses, f \in FetchMaps}

\* Lines 179-230, the whole call.
PmidCall ==
  /\ call.fn = "get_pmid_for_title" /\ call.step = "start"
  /\ call' = [call EXCEPT !.step = "done",
                          !.out = get_pmid_for_title(call.title, call.response,
                                                     call.fetch)]
  /\ UNCHANGED pipe

PmidNext == PmidCall

SpecPmid == PmidInit /\ [][PmidNext]_vars

\* ------------------------------------------------------------ claims
\* The pool's workers have all returned and gone with it.
Joined(w) == \A i \in DOMAIN w : w[i] = "joined"

\* A worker of the pool has taken an item.
Started(w) == \E i \in DOMAIN w : w[i] # "idle"

\* C1: a stage that finds its cache file (for the annotation runner and the
\* dataset downloader: an item whose output file is there) issues no remote
\* call at all.
CacheHitMakesNoRemoteCall ==
  /\ "locator" \in cached => <<"locator", 0>> \notin net
  /\ "titles" \in cached => \A d \in Datasets : <<"titles", d>> \notin net
  /\ "pmids" \in cached => \A i \in 1..Len(titles) : <<"pmids", i>> \notin net
  /\ \A i \in DOMAIN ow : ow[i] = "exists" => <<"ontogpt", i>> \notin net
  /\ \A d \in Datasets : dw[d] = "exists" => <<"datasets", d>> \notin net

\* C1, amended: the locator, the citation resolver and the PMID resolver that
\* find their cache issue no remote call, the annotation runner starts no
\* ontogpt for a PMID whose output exists, and the downloader fetches no asset
\* for a dataset whose file exists; its one request to the curation API it
\* issues all the same.
CacheHitFetchesNothingCached ==
  /\ "locator" \in cached => <<"locator", 0>> \notin net
  /\ "titles" \in cached => \A d \in Datasets : <<"titles", d>> \notin net
  /\ "pmids" \in cached => \A i \in 1..Len(titles) : <<"pmids", i>> \notin net
  /\ \A i \in DOMAIN ow : ow[i] = "exists" => <<"ontogpt", i>> \notin net
  /\ \A d \in Datasets :
       dw[d] = "exists" =>
         <<"asset", d>> \notin net /\ <<"datasets", d>> \in net

\* C1's case: a run that read the three caches found a dataset's file.
RerunFoundEverything ==
  /\ cached = {"locator", "titles", "pmids"}
  /\ \E d \in Datasets : dw[d] = "exists" /\ net = {<<"datasets", d>>}

\* C2: no step writes a cache artifact that exists: lung_obs.parquet (line 70),
\* lung_datasets.parquet (line 76), titles.pickle (line 167), pmids.pickle
\* (line 281), an ontogpt output (line 301) or an H5AD file (line 362).
CacheArtifactNeverRewritten ==
  [][/\ LUNG_OBS \in files => ~(pc = "write_obs" /\ pc' = "write_datasets")
     /\ LUNG_DATASETS \in files => ~(pc = "write_datasets" /\ pc' = "titles")
     /\ TITLES_PICKLE \in files => ~(pc = "titles_map" /\ pc' = "pmids")
     /\ PMIDS_PICKLE \in files => ~(pc = "pmids_map" /\ pc' = "ontogpt_map")
     /\ \A i \in DOMAIN ow :
          pmids[i] \in ontogpt_out =>
            ~(ow[i] = "idle" /\ i \in DOMAIN ow' /\ ow'[i] = "running")
     /\ \A d \in Datasets :
          h5ad[d] # "absent" => ~(dw[d] = "idle" /\ dw'[d] = "streaming")
    ]_vars

\* C2, amended: no step writes a pickle, an ontogpt output or an H5AD file
\* that exists, nor a parquet file when both exist; lung_obs.parquet is
\* written again by the run that finds lung_datasets.parquet missing.
CacheArtifactRewrittenOnlyWithItsPair ==
  [][/\ (LUNG_OBS \in files /\ pc = "write_obs" /\ pc' = "write_datasets")
          => LUNG_DATASETS \notin files
     /\ LUNG_DATASETS \in files => ~(pc = "write_datasets" /\ pc' = "titles")
     /\ TITLES_PICKLE \in files => ~(pc = "titles_map" /\ pc' = "pmids")
     /\ PMIDS_PICKLE \in files => ~(pc = "pmids_map" /\ pc' = "ontogpt_map")
     /\ \A i \in DOMAIN ow :
          pmids[i] \in ontogpt_out =>
            ~(ow[i] = "idle" /\ i \in DOMAIN ow' /\ ow'[i] = "running")
     /\ \A d \in Datasets :
          h5ad[d] # "absent" => ~(dw[d] = "idle" /\ dw'[d] = "streaming")
    ]_vars

\* C2's case: a run found lung_obs.parquet without lung_datasets.parquet, has
\* read the census and is at line 70.
LoneParquetAboutToBeRewritten ==
  /\ pc = "write_obs"
  /\ LUNG_OBS \in files /\ LUNG_DATASETS \notin files
  /\ <<"locator", 0>> \in net

NoDuplicates(l) == \A i, j \in DOMAIN l : i # j => l[i] # l[j]

\* C3: every element of the list in titles.pickle and of the list in
\* pmids.pickle is a str, and neither list has a duplicate.
CachedListsHoldDistinctStrings ==
  /\ TITLES_PICKLE \in files =>
       /\ \A k \in DOMAIN titles_pickle : IsStr(titles_pickle[k])
       /\ NoDuplicates(titles_pickle)
  /\ PMIDS_PICKLE \in files =>
       /\ \A k \in DOMAIN pmids_pickle : IsStr(pmids_pickle[k])
       /\ NoDuplicates(pmids_pickle)

\* C4: a get_dataset worker answered with a dataset_id other than the one it
\* asked for has logged the error and returned, and no step that leaves it so
\* fetched an asset for the dataset or touched the dataset's file.
MismatchAbortsDownload ==
  [][\A d \in Datasets :
       dresp'[d] \notin {0, d} =>
         /\ <<"id", d>> \in errlog'
         /\ dw'[d] = "returned"
         /\ <<"asset", d>> \notin net'
         /\ h5ad'[d] = h5ad[d]
    ]_vars

\* C4's case: a worker was answered with another id; its dataset has no file.
MismatchSeen ==
  \E d \in Datasets :
    /\ dresp[d] \notin {0, d}
    /\ dw[d] = "returned"
    /\ <<"id", d>> \in errlog
    /\ h5ad[d] = "absent"

\* t is s followed by one period.
WithPeriod(s, t) ==
  /\ Len(t) = Len(s) + 1
  /\ t[Len(t)] = "."
  /\ SubSeq(t, 1, Len(s)) = s

\* C5: a search that answers 200 and does not end in an exception gives, with
\* more than one result, the first PMID of the idlist whose fetched title is
\* the query title followed by one period, and the first PMID of the idlist
\* when there is none; with one result, that result, and no title is fetched.
PmidSelection ==
  (/\ call.fn = "get_pmid_for_title" /\ call.step = "done"
   /\ ~call.response.exc /\ call.response.status_code = 200
   /\ ~call.out.raised) =>
    LET ids == call.response.idlist
        matches(k) ==
          /\ ~call.fetch[ids[k]].exc
          /\ call.fetch[ids[k]].status_code = 200
          /\ WithPeriod(call.title, call.fetch[ids[k]].article_title)
        hits == {k \in DOMAIN ids : matches(k)}
    IN /\ call.response.count > 1 =>
            call.out.ret = IF hits = {} THEN ids[1] ELSE ids[Min(hits)]
       /\ call.response.count = 1 =>
            call.out.ret = ids[1] /\ call.out.fetched = <<>>

\* C5's case: two results, the second the one whose title matches.
PmidSecondCandidateChosen ==
  /\ call.fn = "get_pmid_for_title" /\ call.step = "done"
  /\ call.title = FooBar
  /\ call.response.status_code = 200 /\ call.response.count = 2
  /\ Len(call.response.idlist) = 2
  /\ call.fetch[call.response.idlist[1]].status_code = 200
  /\ call.fetch[call.response.idlist[1]].article_title = FooBar
  /\ call.fetch[call.response.idlist[2]].status_code = 200
  /\ call.fetch[call.response.idlist[2]].article_title
       = StrAdd(FooBar, Str(<<".">>))
  /\ call.out.ret = call.response.idlist[2]
  /\ call.out.fetched = call.response.idlist

\* The citation has no "Publication: ... Dataset Version:" on one line.
NoPublicationUrl(citation) ==
  ~\E i, j \in DOMAIN citation :
     /\ i < j /\ citation[i] = PUB /\ citation[j] = DV
     /\ \A k \in (i + 1)..(j - 1) : citation[k] # NL

\* C6: for a citation without the URL, get_title returns (None, None), logs
\* the warning, and neither issues the request nor runs curl.
NoUrlReturnsNonePair ==
  (/\ call.fn = "get_title" /\ call.step = "done"
   /\ NoPublicationUrl(call.citation)) =>
    /\ call.out.ret = Tuple2(None, None)
    /\ call.out.warned
    /\ ~call.out.http /\ ~call.out.curl /\ ~call.out.raised

\* C6's case: the call on a citation without a link has returned.
NoUrlCallReturned ==
  /\ call.fn = "get_title" /\ call.step = "done"
  /\ call.citation = Str(<<"Study (2024) Journal, no publication link">>)
  /\ call.out.warned
  /\ call.response = NoResponse

\* C7: when the request is answered, the fallback runs exactly when the status
\* is not 200 or no selector matches an element; otherwise the title is the
\* text of the first element of the first selector, in the list's order, that
\* matches one.
SelectorPriority ==
  (/\ call.fn = "get_title" /\ call.step = "done"
   /\ call.out.http /\ ~call.out.raised) =>
    LET body == call.response.body
        matched(k) == \E e \in DOMAIN body : body[e].sel = selectors[k]
        any == /\ call.response.status_code = 200
               /\ \E k \in DOMAIN selectors : matched(k)
    IN /\ call.out.curl <=> ~any
       /\ any =>
            \E k \in DOMAIN selectors, e \in DOMAIN body :
              /\ \A j \in 1..(k - 1) : ~matched(j)
              /\ body[e].sel = selectors[k]
              /\ \A f \in 1..(e - 1) : body[f].sel # selectors[k]
              /\ call.out.ret = body[e].text

\* C7's case: the page's first heading matches the second selector, its second
\* heading, <h1 class="c-article-title">My Study</h1>, the first selector.
SelectorPriorityDecides ==
  /\ call.fn = "get_title" /\ call.step = "done"
  /\ call.response.status_code = 200
  /\ call.response.body =
       << [sel |-> selectors[2], text |-> FooBar],
          [sel |-> selectors[1], text |-> MyStudy] >>
  /\ call.out.ret = MyStudy
  /\ ~call.out.curl

\* A pool's stage is over: its workers have all returned and gone, or the
\* stage read its cache and started none.
StageOver(w, stage) == IF stage \in cached THEN ~Started(w) ELSE Joined(w)

\* C8: a worker of a stage has started only when the stage before is over, all
\* its workers returned, and a worker that raised keeps every later stage from
\* starting a worker.
StagesInSequence ==
  /\ Started(tw) => {LUNG_OBS, LUNG_DATASETS} \subseteq files
  /\ Started(pw) => StageOver(tw, "titles")
  /\ Started(ow) => StageOver(tw, "titles") /\ StageOver(pw, "pmids")
  /\ Started(dw) =>
       /\ StageOver(tw, "titles") /\ StageOver(pw, "pmids")
       /\ Joined(ow)
  /\ MapRaised(tw) => ~Started(pw) /\ ~Started(ow) /\ ~Started(dw)
  /\ MapRaised(pw) => ~Started(ow) /\ ~Started(dw)
  /\ MapRaised(ow) => ~Started(dw)

\* C8's case: in one run all four pools ran, and a download is under way.
AllPoolsRan ==
  /\ Joined(tw)
  /\ pw # <<>> /\ Joined(pw)
  /\ ow # <<>> /\ Joined(ow)
  /\ \E d \in Datasets : dw[d] = "streaming"

\* C9: a search answered 200 with no result gives None for its title, without
\* an exception.
ZeroResultsYieldNone ==
  (/\ call.fn = "get_pmid_for_title" /\ call.step = "done"
   /\ ~call.response.exc /\ call.response.status_code = 200
   /\ call.response.count = 0) =>
    /\ ~call.out.raised
    /\ call.out.ret = None

\* The dataset's file is partial and no worker is writing it: its download
\* was interrupted.
Truncated(d) == h5ad[d] = "partial" /\ dw[d] # "streaming"

\* C10: once a download has been interrupted with its file open, the file
\* stays partial: no later step fetches the asset again or writes the file.
TruncatedFileStays ==
  [][\A d \in Datasets :
       Truncated(d) =>
         /\ h5ad'[d] = "partial"
         /\ dw'[d] # "streaming"
         /\ <<"asset", d>> \in net' => <<"asset", d>> \in net
    ]_vars

\* C10's case: a later run found the partial file and took it for downloaded.
TruncatedTakenForComplete ==
  \E d \in Datasets : h5ad[d] = "partial" /\ dw[d] = "exists"

====
